---- MODULE Spec2Model ----
(***************************************************************************)
(* Model of the Dee Studio image API (apps/api/routes/flux.py and          *)
(* apps/api/routes/sdxl.py): the two module-level model caches, the        *)
(* get-or-create pipeline loaders, and the four request handlers           *)
(* (FLUX/SDXL generate and transform), the image files they write under    *)
(* outputs/images, and the two read-only model listings (health.py,        *)
(* models.py).                                                             *)
(*                                                                         *)
(* The handlers are "async def" functions that never await, so the event   *)
(* loop runs each of them to completion: one action per handler.  What a   *)
(* handler did is recorded in "last" (its request, the caches it found,    *)
(* the ordered steps it performed, and the response it returns) until the  *)
(* response has left.                                                      *)
(*                                                                         *)
(* The environment decides, anew for every request, which model files are  *)
(* on disk, how much accelerator memory stays allocated after the cleanup, *)
(* which library call raises, and which seed is drawn.                     *)
(*                                                                         *)
(* The specifications share the state.  Spec takes each handler as one     *)
(* step.  SpecLoop follows the event loop: connections arrive at any time, *)
(* a handler coroutine runs statement by statement, and the loop can hand  *)
(* control to another coroutine only where the running one awaits.         *)
(* SpecPage is the Streamlit page (3_SDXL_Image_Generator.py), a process   *)
(* of its own with its session state.  SpecText is text_generation.py: its *)
(* model cache, get_text_model and the text handlers.                      *)
(*                                                                         *)
(* Scaling: guidance and cfg_scale are floats in the source and are kept   *)
(* here in tenths (35 is 3.5); accelerator memory is kept in whole GiB.    *)
(***************************************************************************)
EXTENDS Integers, Sequences, FiniteSets

VARIABLES
    flux_cache,   \* flux.py  _model_cache : key -> value
    sdxl_cache,   \* sdxl.py  _model_cache : key -> value
    cuda,         \* torch.cuda.is_available()
    output_dir,   \* the names of the files under OUTPUT_DIR (outputs/images)
    load_failed,  \* history: the families whose latest load attempt failed
    last,         \* what the request just handled did and returns
    tasks,        \* event loop: the handler coroutine of each connection
    running,      \* event loop: the coroutine that holds the loop (0: none)
    turns,        \* history: the coroutines in the order the loop ran them
    session_state, \* Streamlit page: st.session_state of each session
    torch_seed,   \* Streamlit process: the seed of torch's global generator
    scripts,      \* Streamlit process: where each session's script run stands
    clicks,       \* history: how many buttons have been pressed on the page
    text_cache,   \* text_generation.py  _model_cache : key -> value
    text_last     \* what the text request just handled did and returns

loop_vars == <<tasks, running, turns>>
vars == <<flux_cache, sdxl_cache, cuda, output_dir, load_failed, last, tasks, running,
          turns, session_state, torch_seed, scripts, clicks, text_cache, text_last>>
page_vars == <<session_state, torch_seed, scripts, clicks>>
text_vars == <<text_cache, text_last>>

----------------------------------------------------------------------------
(* Bounds of the model.                                                    *)

\* num_images ranges over 0..MaxImages (the valid range is 1..4).
MaxImages == 5
\* Accelerator memory (GiB) held by anything other than the SDXL pipeline
\* after the cleanup ran: 0..MaxOtherGB.
MaxOtherGB == 2
\* Requests are taken while OUTPUT_DIR holds at most MaxStored files.
MaxStored == 2
\* SpecLoop: the number of connections.
MaxTasks == 3
\* SpecPage: the number of browser sessions, of buttons pressed in all, and
\* of images asked for in one batch (the slider allows PageMaxImages).
MaxSessions == 2
MaxClicks == 3
MaxPageImages == 2

(* Program constants.                                                      *)

\* flux.py:77  "if allocated > 1.0"
ThresholdGB == 1
\* health.py:42 "vram": "~7GB": what a resident SDXL pipeline holds.
SdxlVramGB == 7
\* np.random.randint(0, 10**9): the exclusive upper end of a drawn seed.
SeedHigh == 1000000000

----------------------------------------------------------------------------
(* Files.                                                                  *)

FluxModelFile == "models/FLUX/FLUX.1-dev/flux1-dev.safetensors"
SdxlModelFile == "models/stable_diffusion_xl/sd_xl_base_1.0.safetensors"
LoraFile      == "models/lora/flux/sldr_flux_nsfw_v2-studio.safetensors"
ModelFiles    == {FluxModelFile, SdxlModelFile, LoraFile}

\* os.path.exists
exists(fs, path) == path \in fs

----------------------------------------------------------------------------
(* Python values.                                                          *)

\* Optional[int]: None is the empty sequence, a given value a singleton.
None == <<>>
Some(x) == <<x>>

\* a dict: a function whose domain is its set of keys
EmptyDict == [k \in {} |-> 0]
DictSet(d, k, v) == [x \in (DOMAIN d) \cup {k} |-> IF x = k THEN v ELSE d[x]]
DictDel(d, k) == [x \in (DOMAIN d) \ {k} |-> d[x]]

\* An exception in flight; status is 0 for one that is not an HTTPException.
NoExc == [kind |-> "none", status |-> 0]
HTTPException(status, kind) == [kind |-> kind, status |-> status]
Raised(kind) == [kind |-> kind, status |-> 0]

\* One thing a handler did, in order.
Ev(e, v) == [e |-> e, v |-> v]

\* A pipeline object.
NoPipeline == [id |-> 0, family |-> "none", lora |-> FALSE, offload |-> FALSE]
Pipeline(id, family, lora, offload) ==
    [id |-> id, family |-> family, lora |-> lora, offload |-> offload]

----------------------------------------------------------------------------
(* Accelerator memory.                                                     *)

\* torch.cuda.memory_allocated(0) / 1024**3 once the cleanup has run: what
\* the live SDXL pipeline holds (sdxl.py keeps it referenced in its own
\* cache; the FLUX pipeline is offloaded to the CPU) plus whatever else is
\* still referenced.
memory_allocated(sdxlc, other) ==
    (IF "sdxl_pipeline" \in DOMAIN sdxlc THEN SdxlVramGB ELSE 0) + other

\* The pipeline objects that are alive because a cache refers to them.
LiveIds(fluxc, sdxlc) ==
    (IF "flux_pipeline" \in DOMAIN fluxc THEN {fluxc["flux_pipeline"].id} ELSE {})
    \cup (IF "sdxl_pipeline" \in DOMAIN sdxlc THEN {sdxlc["sdxl_pipeline"].id} ELSE {})

\* The identity of a newly constructed object: distinct from every live one.
NewId(live) ==
    CHOOSE n \in 1..(Cardinality(live) + 1) :
        n \notin live /\ \A m \in 1..(n - 1) : m \in live

\* How many pipelines a cache holds under the given key (0 or 1): what
\* _model_cache.clear() releases.
Held(cache, key) == IF key \in DOMAIN cache THEN 1 ELSE 0

\* What a get-or-create call hands back to the handler.
Got(cache, exc, pipeline, events) ==
    [cache |-> cache, exc |-> exc, pipeline |-> pipeline, events |-> events]

----------------------------------------------------------------------------
(* flux.py get_flux_pipeline                                               *)

FluxLoadFaults == {"none", "construct", "lora", "offload"}

\* The body of "if 'flux_pipeline' not in _model_cache:".
FluxLoad(cache, sdxlc, fs, cu, other, fault) ==
      LET allocated      == memory_allocated(sdxlc, other)
          lora_available == exists(fs, LoraFile)
          pipeline       == Pipeline(NewId(LiveIds(EmptyDict, sdxlc)), "flux",
                                     lora_available, TRUE)
          \* _model_cache.clear()
          e_clear   == <<Ev("clear", Held(cache, "flux_pipeline"))>>
          \* VRAM before cleanup (printed only)
          e_before  == IF cu THEN <<Ev("measure", allocated)>> ELSE <<>>
          \* gc.collect(); empty_cache(); synchronize(); reset_peak_memory_stats()
          e_reclaim == <<Ev("reclaim", 0)>>
          \* VRAM after cleanup and the admission test
          e_after   == <<Ev("measure", allocated),
                         Ev("admission", IF allocated > ThresholdGB THEN 0 ELSE 1)>>
          \* the model file is looked for, and then the LoRA file
          e_exists  == <<Ev("exists", IF exists(fs, FluxModelFile) THEN 1 ELSE 0)>>
          e_found   == e_exists \o <<Ev("exists_lora", IF lora_available THEN 1 ELSE 0)>>
          e_build   == <<Ev("construct", pipeline.id)>>
          e_lora    == IF lora_available THEN <<Ev("load_lora", pipeline.id)>> ELSE <<>>
          e_offload == <<Ev("offload", pipeline.id)>>
          e_store   == <<Ev("store", pipeline.id)>>
          pre       == e_clear \o e_before \o e_reclaim
      IN
      IF ~cu
      THEN \* torch.cuda.synchronize() raises without a CUDA device
           Got(EmptyDict, Raised("cuda"), NoPipeline, pre)
      ELSE IF allocated > ThresholdGB
      THEN Got(EmptyDict, HTTPException(503, "GPU memory not freed"), NoPipeline,
               pre \o e_after)
      ELSE IF ~exists(fs, FluxModelFile)
      THEN Got(EmptyDict, HTTPException(404, "FLUX model not found"), NoPipeline,
               pre \o e_after \o e_exists)
      ELSE IF fault = "construct"
      THEN Got(EmptyDict, Raised("construct"), NoPipeline,
               pre \o e_after \o e_found \o e_build)
      ELSE IF fault = "lora" /\ lora_available
      THEN Got(EmptyDict, Raised("lora"), NoPipeline,
               pre \o e_after \o e_found \o e_build \o e_lora)
      ELSE IF fault = "offload"
      THEN Got(EmptyDict, Raised("offload"), NoPipeline,
               pre \o e_after \o e_found \o e_build \o e_lora \o e_offload)
      ELSE Got(DictSet(DictSet(EmptyDict, "flux_pipeline", pipeline),
                       "lora_available", lora_available),
               NoExc, pipeline,
               pre \o e_after \o e_found \o e_build \o e_lora \o e_offload \o e_store)

\* Mutant: the cache test is dropped, every call loads again.
get_flux_pipeline_reloads(cache, sdxlc, fs, cu, other, fault) ==
    FluxLoad(cache, sdxlc, fs, cu, other, fault)

\* Mutant: the miss test looks for the flag, which is never stored.
get_flux_pipeline_no_flag(cache, sdxlc, fs, cu, other, fault) ==
    LET got == FluxLoad(cache, sdxlc, fs, cu, other, fault)
    IN  IF "lora_available" \in DOMAIN cache
        THEN Got(cache, NoExc, cache["flux_pipeline"], <<>>)
        ELSE IF got.exc = NoExc
        THEN [got EXCEPT !.cache = DictDel(got.cache, "lora_available")]
        ELSE got

\* Mutant: the cached flag does not come from the test of the LoRA file.
get_flux_pipeline_lora_flag(cache, sdxlc, fs, cu, other, fault) ==
    LET got == FluxLoad(cache, sdxlc, fs, cu, other, fault)
    IN  IF "flux_pipeline" \in DOMAIN cache
        THEN Got(cache, NoExc, cache["flux_pipeline"], <<>>)
        ELSE IF got.exc = NoExc
        THEN [got EXCEPT !.cache = DictSet(got.cache, "lora_available", TRUE)]
        ELSE got

\* Mutant: the pipeline is put in the cache as soon as it is constructed,
\* before the LoRA is loaded and the offload enabled.
get_flux_pipeline_stores_early(cache, sdxlc, fs, cu, other, fault) ==
    LET got == FluxLoad(cache, sdxlc, fs, cu, other, fault)
    IN  IF "flux_pipeline" \in DOMAIN cache
        THEN Got(cache, NoExc, cache["flux_pipeline"], <<>>)
        ELSE IF got.exc \in {Raised("lora"), Raised("offload")}
        THEN [got EXCEPT !.cache = DictSet(EmptyDict, "flux_pipeline",
                                           Pipeline(NewId(LiveIds(EmptyDict, sdxlc)),
                                                    "flux", FALSE, FALSE))]
        ELSE got

get_flux_pipeline(cache, sdxlc, fs, cu, other, fault) ==
    IF "flux_pipeline" \in DOMAIN cache
    THEN Got(cache, NoExc, cache["flux_pipeline"], <<>>)
    ELSE FluxLoad(cache, sdxlc, fs, cu, other, fault)

----------------------------------------------------------------------------
(* sdxl.py get_pipeline                                                    *)

SdxlLoadFaults == {"none", "load_model", "construct"}

\* The body of "if 'sdxl_pipeline' not in _model_cache:".
SdxlLoad(cache, fluxc, fs, cu, fault) ==
      LET pipeline  == Pipeline(NewId(LiveIds(fluxc, EmptyDict)), "sdxl", FALSE, FALSE)
          e_clear   == <<Ev("clear", Held(cache, "sdxl_pipeline"))>>
          e_reclaim == <<Ev("reclaim", 0)>>
          \* model_manager.load_model(model_path)
          e_load    == <<Ev("load_model", IF exists(fs, SdxlModelFile) THEN 1 ELSE 0)>>
          \* SDXLImagePipeline.from_model_manager(model_manager)
          e_build   == <<Ev("construct", pipeline.id)>>
          e_store   == <<Ev("store", pipeline.id)>>
          pre       == e_clear \o e_reclaim
      IN
      IF ~cu
      THEN Got(EmptyDict, Raised("cuda"), NoPipeline, pre)
      ELSE IF ~exists(fs, SdxlModelFile) \/ fault = "load_model"
      THEN Got(EmptyDict, Raised("load_model"), NoPipeline, pre \o e_load)
      ELSE IF fault = "construct"
      THEN Got(EmptyDict, Raised("construct"), NoPipeline, pre \o e_load \o e_build)
      ELSE Got(DictSet(EmptyDict, "sdxl_pipeline", pipeline), NoExc, pipeline,
               pre \o e_load \o e_build \o e_store)

\* Mutant: the SDXL pipeline is loaded anew on every call.
get_pipeline_reloads(cache, fluxc, fs, cu, fault) == SdxlLoad(cache, fluxc, fs, cu, fault)

get_pipeline(cache, fluxc, fs, cu, fault) ==
    IF "sdxl_pipeline" \in DOMAIN cache
    THEN Got(cache, NoExc, cache["sdxl_pipeline"], <<>>)
    ELSE SdxlLoad(cache, fluxc, fs, cu, fault)

----------------------------------------------------------------------------
(* Requests, responses and the generation loop.                            *)

Max(a, b) == IF a >= b THEN a ELSE b
Min(a, b) == IF a <= b THEN a ELSE b

\* The response a caller receives.  A success carries the images and the
\* seed; a failure carries the HTTP status and the detail text, which the
\* handlers build from the exception they caught.
ImageResponse(images, seed) ==
    [status |-> 200, detail |-> "", images |-> images, seed |-> Some(seed)]
ErrorResponse(status, detail) ==
    [status |-> status, detail |-> detail, images |-> <<>>, seed |-> None]

\* "except Exception as e: raise HTTPException(status_code=500, detail=str(e))"
except_Exception(e) == ErrorResponse(500, e.kind)

\* FastAPI's answer to a body that violates the request model's Field bounds.
RequestValidationError == ErrorResponse(422, "request validation")

\* uuid.uuid4(): 122 random bits.  Two draws are taken never to coincide, so
\* a draw is an identifier different from every one issued before.
uuid4(issued) ==
    CHOOSE n \in 1..(Cardinality(issued) + 1) :
        n \notin issued /\ \A m \in 1..(n - 1) : m \in issued

\* The identifiers in the names of the files of a directory.
Ids(dir) == {filename[3] : filename \in dir}

\* f"{model_name}_{image_id}.png", kept as the sequence of its parts
Filename(model_name, image_id) == <<model_name, "_", image_id, ".png">>

\* OUTPUT_DIR = "outputs/images", and os.path.join(OUTPUT_DIR, filename)
OUTPUT_DIR == "outputs/images"
join(directory, filename) == <<directory, "/">> \o filename

\* The name under which a path is found in its directory.
basename(filepath) == SubSeq(filepath, 3, Len(filepath))

\* Mutant: the identifier is left out of the file name.
save_and_encode_image_unnamed(image, model_name, image_id) ==
    [base64 |-> image, url |-> <<"/images/">> \o Filename(model_name, 0),
     filename |-> Filename(model_name, 0),
     filepath |-> join(OUTPUT_DIR, Filename(model_name, 0))]

\* Mutant: the URL is built from the identifier alone.
save_and_encode_image_bare_url(image, model_name, image_id) ==
    [base64 |-> image, url |-> <<"/images/", image_id, ".png">>,
     filename |-> Filename(model_name, image_id),
     filepath |-> join(OUTPUT_DIR, Filename(model_name, image_id))]

\* save_and_encode_image: image.save(filepath) writes OUTPUT_DIR/filename;
\* base64, url and filename are the ImageData returned for the image
\* (image_id is what uuid4 returned).
save_and_encode_image(image, model_name, image_id) ==
    [base64 |-> image, url |-> <<"/images/">> \o Filename(model_name, image_id),
     filename |-> Filename(model_name, image_id),
     filepath |-> join(OUTPUT_DIR, Filename(model_name, image_id))]

\* class ImageData: what of it goes into the response
ImageData(saved) ==
    [base64 |-> saved.base64, url |-> saved.url, filename |-> saved.filename]

\* app.mount("/images", StaticFiles(directory=OUTPUT_DIR)): the file of
\* OUTPUT_DIR that a GET of url is answered from
StaticFiles(url) == SubSeq(url, 2, Len(url))

\* What the pipeline call returns under the seed installed before it, for
\* the negative prompt it was handed.
PipelineCall(pipeline, installed, negative_prompt) ==
    [seed |-> installed, by |-> pipeline.id, negative_prompt |-> negative_prompt]

\* Mutant: the loop index is not added to the seed.
manual_seed_fixed(seed, i) == seed

\* torch.manual_seed(seed + i)
manual_seed(seed, i) == seed + i

\* Mutant: the loop runs once more than asked.
range_inclusive(num_images) == Max(num_images + 1, 0)

\* How many times "for i in range(num_images)" runs its body.
range(num_images) == Max(num_images, 0)

\* The list "images" after n iterations of the loop that started with the
\* files of dir on disk: iteration i (from 0) appends the ImageData of the
\* image generated under seed + i, saved under a newly drawn identifier.
RECURSIVE Images(_, _, _, _, _, _)
Images(pipeline, seed, n, model_name, dir, negative_prompt) ==
    IF n <= 0
    THEN <<>>
    ELSE LET before == Images(pipeline, seed, n - 1, model_name, dir, negative_prompt)
             issued == Ids(dir) \cup {before[j].filename[3] : j \in DOMAIN before}
         IN  Append(before,
                    save_and_encode_image(PipelineCall(pipeline, manual_seed(seed, n - 1),
                                                       negative_prompt),
                                          model_name, uuid4(issued)))

\* The loop "for i in range(num_images)": torch.manual_seed(seed + i), the
\* pipeline call, save_and_encode_image, images.append.  The pipeline call
\* of iteration fail_at raises (no iteration fails when fail_at is not an
\* index of the loop).  "saved" lists the files written, in order.
Batch(pipeline, seed, num_images, fail_at, model_name, dir, negative_prompt) ==
    LET n      == range(num_images)
        fails  == fail_at \in 0..(n - 1)
        done   == IF fails THEN fail_at ELSE n
        whole  == [j \in 1..(3 * done) |->
                     LET i == (j - 1) \div 3
                         k == (j - 1) % 3
                     IN  IF k = 0 THEN Ev("seed", manual_seed(seed, i))
                         ELSE IF k = 1 THEN Ev("invoke", i)
                         ELSE Ev("save", i)]
        broken == IF fails
                  THEN <<Ev("seed", manual_seed(seed, fail_at)), Ev("invoke", fail_at)>>
                  ELSE <<>>
        images == Images(pipeline, seed, done, model_name, dir, negative_prompt)
    IN  [events |-> whole \o broken,
         images |-> [j \in DOMAIN images |-> ImageData(images[j])],
         saved  |-> [j \in DOMAIN images |-> basename(images[j].filepath)],
         exc    |-> IF fails THEN Raised("generation") ELSE NoExc]

\* What a handler leaves behind: the module cache, the response, what it
\* did, the pipeline it worked with, and the files it wrote.
Handled(cache, response, events, pipeline, saved) ==
    [cache |-> cache, response |-> response, events |-> events, pipeline |-> pipeline,
     saved |-> saved]

\* Mutant: a missing seed falls back to 0 instead of the number drawn.
ResolveSeed_zero(seed, drawn) == IF seed = None THEN 0 ELSE seed[1]

\* "if seed is None: seed = np.random.randint(0, 10**9)"
ResolveSeed(seed, drawn) == IF seed = None THEN drawn ELSE seed[1]
DrawEvents(seed, drawn) == IF seed = None THEN <<Ev("draw", drawn)>> ELSE <<>>

\* Mutant: a failed batch takes back the files it wrote.
Generate_rolls_back(cache, got, request, benv, model_name, opened, dir, negative_prompt) ==
    LET seed  == ResolveSeed(request.seed, benv.drawn)
        batch == Batch(got.pipeline, seed, request.num_images, benv.fail_at, model_name,
                       dir, negative_prompt)
        evs   == got.events \o opened \o DrawEvents(request.seed, benv.drawn) \o batch.events
    IN  IF batch.exc # NoExc
        THEN Handled(cache, except_Exception(batch.exc), evs, got.pipeline, <<>>)
        ELSE Handled(cache, ImageResponse(batch.images, seed), evs, got.pipeline,
                     batch.saved)

\* The part of a handler after the pipeline is acquired (and, for a
\* transform, the uploaded image opened): seed, loop, response.
Generate(cache, got, request, benv, model_name, opened, dir, negative_prompt) ==
    LET seed  == ResolveSeed(request.seed, benv.drawn)
        batch == Batch(got.pipeline, seed, request.num_images, benv.fail_at, model_name,
                       dir, negative_prompt)
        evs   == got.events \o opened \o DrawEvents(request.seed, benv.drawn) \o batch.events
    IN  IF batch.exc # NoExc
        THEN Handled(cache, except_Exception(batch.exc), evs, got.pipeline, batch.saved)
        ELSE Handled(cache, ImageResponse(batch.images, seed), evs, got.pipeline,
                     batch.saved)

----------------------------------------------------------------------------
(* What the environment decides during one request.                        *)

\* While loading: the memory that stays allocated after the cleanup, the
\* step of the load that raises (if any), and the model files present under
\* models/ at that moment.
LoadEnv(other, fault, fs) == [other |-> other, fault |-> fault, files |-> fs]
NoLoadEnv == LoadEnv(0, "none", ModelFiles)
\* While generating: the seed np.random.randint returns, the iteration
\* whose pipeline call raises (-1: none), whether the upload decodes.
RandomSeeds == {7, SeedHigh - 1}
BatchEnv(drawn, fail_at, image_ok) ==
    [drawn |-> drawn, fail_at |-> fail_at, image_ok |-> image_ok]
NoBatchEnv == BatchEnv(7, -1, TRUE)
BatchEnvs(request, acquired, upload) ==
    IF ~acquired
    THEN {NoBatchEnv}
    ELSE {BatchEnv(d, k, TRUE) :
            d \in (IF request.seed = None THEN RandomSeeds ELSE {7}),
            k \in (-1)..(Max(request.num_images, 0) - 1)}
         \cup (IF upload THEN {BatchEnv(7, -1, FALSE)} ELSE {})

----------------------------------------------------------------------------
(* flux.py: the request model and the two handlers.                        *)

\* class FluxGenerateRequest: the Field bounds (guidance, cfg_scale in tenths)
FluxGenerateRequest(r) ==
    /\ r.width >= 512 /\ r.width <= 2048
    /\ r.height >= 512 /\ r.height <= 2048
    /\ r.num_images >= 1 /\ r.num_images <= 4
    /\ r.steps >= 10 /\ r.steps <= 50
    /\ r.guidance >= 10 /\ r.guidance <= 50
    /\ r.cfg_scale >= 10 /\ r.cfg_scale <= 30

\* Mutant: the negative prompt is also passed at cfg_scale = 1.0.
flux_negative_prompt_at_one(request) ==
    IF request.cfg_scale >= 10 THEN request.negative_prompt ELSE ""

\* "negative_prompt=request.negative_prompt if request.cfg_scale > 1.0 else ''"
\* (cfg_scale in tenths)
flux_negative_prompt(request) ==
    IF request.cfg_scale > 10 THEN request.negative_prompt ELSE ""

\* Mutant: the test is for multiples of 8.
NotDivisible_by8(width, height) == width % 8 # 0 \/ height % 8 # 0

\* "if width % 16 != 0 or height % 16 != 0"
NotDivisible(width, height) == width % 16 # 0 \/ height % 16 # 0

DivisibleBy16 == HTTPException(400, "Width and height must be divisible by 16 for FLUX")

\* POST /api/flux/generate
flux_generate_images(request, cache, sdxlc, cu, dir, lenv, benv) ==
    IF ~FluxGenerateRequest(request)
    THEN Handled(cache, RequestValidationError, <<>>, NoPipeline, <<>>)
    ELSE IF NotDivisible(request.width, request.height)
    THEN Handled(cache, except_Exception(DivisibleBy16), <<>>, NoPipeline, <<>>)
    ELSE
      LET got == get_flux_pipeline(cache, sdxlc, lenv.files, cu, lenv.other, lenv.fault)
      IN  IF got.exc # NoExc
          THEN Handled(got.cache, except_Exception(got.exc), got.events, NoPipeline, <<>>)
          ELSE Generate(got.cache, got, request, benv, "flux", <<>>, dir,
                        flux_negative_prompt(request))

\* POST /api/flux/transform: Form fields, none of them bounded
flux_transform_image(request, cache, sdxlc, cu, dir, lenv, benv) ==
    IF NotDivisible(request.width, request.height)
    THEN Handled(cache, except_Exception(DivisibleBy16), <<>>, NoPipeline, <<>>)
    ELSE
      LET got == get_flux_pipeline(cache, sdxlc, lenv.files, cu, lenv.other, lenv.fault)
      IN  IF got.exc # NoExc
          THEN Handled(got.cache, except_Exception(got.exc), got.events, NoPipeline, <<>>)
          ELSE IF ~benv.image_ok
          THEN \* Image.open(image.file) raises
               Handled(got.cache, except_Exception(Raised("input image")),
                       got.events \o <<Ev("open", 0)>>, got.pipeline, <<>>)
          ELSE Generate(got.cache, got, request, benv, "flux_img2img", <<Ev("open", 1)>>,
                        dir, flux_negative_prompt(request))

----------------------------------------------------------------------------
(* sdxl.py: the request model and the two handlers.                        *)

\* class GenerateRequest: the Field bounds (cfg_scale in tenths)
GenerateRequest(r) ==
    /\ r.width >= 512 /\ r.width <= 2048
    /\ r.height >= 512 /\ r.height <= 2048
    /\ r.num_images >= 1 /\ r.num_images <= 4
    /\ r.steps >= 10 /\ r.steps <= 50
    /\ r.cfg_scale >= 10 /\ r.cfg_scale <= 150

\* POST /api/sdxl/generate
sdxl_generate_images(request, cache, fluxc, cu, dir, lenv, benv) ==
    IF ~GenerateRequest(request)
    THEN Handled(cache, RequestValidationError, <<>>, NoPipeline, <<>>)
    ELSE
      LET got == get_pipeline(cache, fluxc, lenv.files, cu, lenv.fault)
      IN  IF got.exc # NoExc
          THEN Handled(got.cache, except_Exception(got.exc), got.events, NoPipeline, <<>>)
          ELSE Generate(got.cache, got, request, benv, "sdxl", <<>>, dir,
                        request.negative_prompt)

\* POST /api/sdxl/transform: Form fields, none of them bounded
sdxl_transform_image(request, cache, fluxc, cu, dir, lenv, benv) ==
    LET got == get_pipeline(cache, fluxc, lenv.files, cu, lenv.fault)
    IN  IF got.exc # NoExc
        THEN Handled(got.cache, except_Exception(got.exc), got.events, NoPipeline, <<>>)
        ELSE IF ~benv.image_ok
        THEN Handled(got.cache, except_Exception(Raised("input image")),
                     got.events \o <<Ev("open", 0)>>, got.pipeline, <<>>)
        ELSE Generate(got.cache, got, request, benv, "sdxl_img2img", <<Ev("open", 1)>>,
                      dir, request.negative_prompt)

----------------------------------------------------------------------------
(* health.py and models.py: the two model listings.                        *)

\* The body of a listing: the listed models, and the default model where
\* the listing names one.
Listing(models, default_model) == [models |-> models, default_model |-> default_model]
NoListing == Listing(<<>>, "")
ListedModel(id, available) == [id |-> id, available |-> available]

\* Mutant: the FLUX entry is computed from the SDXL path.
list_models_one_path(fs) ==
    Listing(<<ListedModel("sdxl", exists(fs, SdxlModelFile)),
              ListedModel("flux", exists(fs, SdxlModelFile))>>, "")

\* GET /api/models
list_models(fs) ==
    Listing(<<ListedModel("sdxl", exists(fs, SdxlModelFile)),
              ListedModel("flux", exists(fs, FluxModelFile))>>, "")

\* GET /api/models/config: only the available models are listed
get_models_config(fs) ==
    LET sdxl_available == exists(fs, SdxlModelFile)
        flux_available == exists(fs, FluxModelFile)
    IN  Listing((IF sdxl_available THEN <<ListedModel("sdxl", TRUE)>> ELSE <<>>)
                \o (IF flux_available THEN <<ListedModel("flux", TRUE)>> ELSE <<>>),
                IF flux_available THEN "flux" ELSE "sdxl")

----------------------------------------------------------------------------
(* The requests the clients send.                                          *)

\* seed=0 is an explicit seed: the handlers test "is None"
Seeds == {None, Some(0), Some(42)}

\* width=1024, height=1024, count=2, seed=42 with the default steps,
\* guidance and cfg_scale of the FLUX endpoints
FluxBase ==
    [width |-> 1024, height |-> 1024, num_images |-> 2, steps |-> 28,
     guidance |-> 35, cfg_scale |-> 10, seed |-> Some(42), negative_prompt |-> "blurry"]

FluxRequests ==
    {[FluxBase EXCEPT !.num_images = n, !.seed = s] : n \in 0..MaxImages, s \in Seeds}
    \cup {[FluxBase EXCEPT !.width = 1000], [FluxBase EXCEPT !.height = 1000]}
    \cup {[FluxBase EXCEPT !.steps = 51], [FluxBase EXCEPT !.guidance = 60]}
    \cup {[FluxBase EXCEPT !.cfg_scale = c] : c \in {5, 11, 20, 160}}
    \cup {[FluxBase EXCEPT !.cfg_scale = 20, !.negative_prompt = ""]}

SdxlBase ==
    [width |-> 1024, height |-> 1024, num_images |-> 2, steps |-> 20,
     cfg_scale |-> 75, seed |-> Some(42), negative_prompt |-> "blurry"]

SdxlRequests ==
    {[SdxlBase EXCEPT !.num_images = n, !.seed = s] : n \in 0..MaxImages, s \in Seeds}
    \cup {[SdxlBase EXCEPT !.width = 1000], [SdxlBase EXCEPT !.steps = 51]}
    \cup {[SdxlBase EXCEPT !.cfg_scale = c] : c \in {5, 160}}

----------------------------------------------------------------------------
(* The state machine.                                                      *)

\* The record of a handled request: what was resident when it arrived, what
\* it did, what it returned.  A listing also records the model files that
\* were on disk when it looked (disk) and the body it returned.
Served(endpoint, family, request, h) ==
    [endpoint |-> endpoint, family |-> family, request |-> request,
     flux_before |-> flux_cache, sdxl_before |-> sdxl_cache,
     dir_before |-> output_dir, saved |-> h.saved, failed_before |-> load_failed,
     disk |-> {}, body |-> NoListing,
     events |-> h.events, response |-> h.response, pipeline |-> h.pipeline]

NoRequest ==
    [endpoint |-> "none", family |-> "none", request |-> FluxBase,
     flux_before |-> EmptyDict, sdxl_before |-> EmptyDict,
     dir_before |-> {}, saved |-> <<>>, failed_before |-> {},
     disk |-> {}, body |-> NoListing,
     events |-> <<>>, response |-> ErrorResponse(0, ""), pipeline |-> NoPipeline]

\* The browser sessions of the Streamlit page, and a session whose script
\* is not running.
Sessions == 1..MaxSessions
NoRun == [pc |-> "idle", num_images |-> 0, seed |-> 0, use_fixed_seed |-> FALSE,
          i |-> 0, images |-> <<>>]

\* The responses of the text endpoints, and the record of no text request.
TextResponse(text) == [status |-> 200, detail |-> "", text |-> text]
TextError(status, detail) == [status |-> status, detail |-> detail, text |-> <<>>]

NoTextRequest ==
    [endpoint |-> "none", request |-> [prompt |-> <<>>, messages |-> <<>>,
                                       max_length |-> 0],
     cache_before |-> EmptyDict, found |-> TRUE, raised |-> NoExc, events |-> <<>>,
     response |-> TextResponse(<<>>)]

\* A handler coroutine: where its connection stands (idle: no request yet,
\* queued: the request waits for the loop, running, done), the course h its
\* handler takes, the number of steps of h.events it has performed, and the
\* step during which the client's disconnect arrived (-1: none).
Idle ==
    [state |-> "idle", endpoint |-> "none", family |-> "none",
     h |-> Handled(EmptyDict, ErrorResponse(0, ""), <<>>, NoPipeline, <<>>),
     at |-> 0, cancelled |-> -1]
Done == [Idle EXCEPT !.state = "done"]

Init ==
    /\ flux_cache = EmptyDict
    /\ sdxl_cache = EmptyDict
    /\ cuda \in BOOLEAN
    /\ output_dir = {}
    /\ load_failed = {}
    /\ last = NoRequest
    /\ tasks = [t \in 1..MaxTasks |-> Idle]
    /\ running = 0
    /\ turns = <<>>
    /\ session_state = [s \in Sessions |-> EmptyDict]
    /\ torch_seed = 0
    /\ scripts = [s \in Sessions |-> NoRun]
    /\ clicks = 0
    /\ text_cache = EmptyDict
    /\ text_last = NoTextRequest

\* OUTPUT_DIR after image.save(filepath) ran for each file name in turn: a
\* name already there is written over, a new one is added.
Written(dir, saved) == dir \cup {saved[j] : j \in DOMAIN saved}

\* Whether a handler got as far as the named step.
Did(h, e) == \E j \in DOMAIN h.events : h.events[j].e = e

\* The families whose latest load attempt failed, after a handler ran: a
\* load attempt is a get-or-create call that took the miss branch (it
\* cleared the cache), and it succeeded when it stored the pipeline.
Attempted(failed, family, h) ==
    IF ~Did(h, "clear") THEN failed
    ELSE IF Did(h, "store") THEN failed \ {family}
    ELSE failed \cup {family}

\* The handler behind an endpoint, run in the current state.
Handle(endpoint, request, lenv, benv) ==
    CASE endpoint = "flux/generate" ->
           flux_generate_images(request, flux_cache, sdxl_cache, cuda, output_dir, lenv,
                                benv)
      [] endpoint = "flux/transform" ->
           flux_transform_image(request, flux_cache, sdxl_cache, cuda, output_dir, lenv,
                                benv)
      [] endpoint = "sdxl/generate" ->
           sdxl_generate_images(request, sdxl_cache, flux_cache, cuda, output_dir, lenv,
                                benv)
      [] endpoint = "sdxl/transform" ->
           sdxl_transform_image(request, sdxl_cache, flux_cache, cuda, output_dir, lenv,
                                benv)

\* Every way a handler can go on a request: under each memory reading when
\* the handler measures, each set of files when it looks for them, each
\* failing load step when it starts constructing, and each course of the
\* loop when it has its pipeline.  What the handler never consults is left
\* at its default.
Outcomes(endpoint, request, others, faults, looked_at, upload) ==
    UNION {
      UNION {
        UNION {
          {Handle(endpoint, request, LoadEnv(o, f, fs), b) :
              b \in BatchEnvs(request,
                              Handle(endpoint, request, LoadEnv(o, f, fs),
                                     NoBatchEnv).pipeline # NoPipeline,
                              upload)}
          : f \in (IF Did(Handle(endpoint, request, LoadEnv(o, "none", fs), NoBatchEnv),
                          "construct")
                   THEN faults ELSE {"none"})}
        : fs \in (IF \/ Did(Handle(endpoint, request, LoadEnv(o, "none", ModelFiles),
                                   NoBatchEnv), "exists")
                     \/ Did(Handle(endpoint, request, LoadEnv(o, "none", ModelFiles),
                                   NoBatchEnv), "load_model")
                  THEN {ModelFiles \ gone : gone \in SUBSET looked_at}
                  ELSE {ModelFiles})}
      : o \in (IF Did(Handle(endpoint, request, NoLoadEnv, NoBatchEnv), "measure")
               THEN others ELSE {0})}

FluxOutcomes(endpoint, request, upload) ==
    Outcomes(endpoint, request, 0..MaxOtherGB, FluxLoadFaults,
             {FluxModelFile, LoraFile}, upload)
SdxlOutcomes(endpoint, request, upload) ==
    Outcomes(endpoint, request, {0}, SdxlLoadFaults, {SdxlModelFile}, upload)

\* Mutant: the loader's "clear all cached models" step also empties the
\* SDXL module's cache.
FluxGenerate_clears_all ==
    /\ last = NoRequest
    /\ Cardinality(output_dir) <= MaxStored
    /\ \E request \in FluxRequests :
         \E h \in FluxOutcomes("flux/generate", request, FALSE) :
           /\ flux_cache' = h.cache
           /\ sdxl_cache' = IF Did(h, "clear") THEN EmptyDict ELSE sdxl_cache
           /\ output_dir' = Written(output_dir, h.saved)
           /\ load_failed' = Attempted(load_failed, "flux", h)
           /\ last' = Served("flux/generate", "flux", request, h)
           /\ UNCHANGED <<cuda, page_vars, text_vars>>
           /\ UNCHANGED loop_vars

\* POST /api/flux/generate.  flux.py's _model_cache is a module-level dict
\* of its own: nothing in flux.py refers to the dict of sdxl.py.
FluxGenerate ==
    /\ last = NoRequest
    /\ Cardinality(output_dir) <= MaxStored
    /\ \E request \in FluxRequests :
         \E h \in FluxOutcomes("flux/generate", request, FALSE) :
           /\ flux_cache' = h.cache
           /\ output_dir' = Written(output_dir, h.saved)
           /\ load_failed' = Attempted(load_failed, "flux", h)
           /\ last' = Served("flux/generate", "flux", request, h)
           /\ UNCHANGED <<sdxl_cache, cuda, page_vars, text_vars>>
           /\ UNCHANGED loop_vars

FluxTransform ==
    /\ last = NoRequest
    /\ Cardinality(output_dir) <= MaxStored
    /\ \E request \in FluxRequests :
         \E h \in FluxOutcomes("flux/transform", request, TRUE) :
           /\ flux_cache' = h.cache
           /\ output_dir' = Written(output_dir, h.saved)
           /\ load_failed' = Attempted(load_failed, "flux", h)
           /\ last' = Served("flux/transform", "flux", request, h)
           /\ UNCHANGED <<sdxl_cache, cuda, page_vars, text_vars>>
           /\ UNCHANGED loop_vars

SdxlGenerate ==
    /\ last = NoRequest
    /\ Cardinality(output_dir) <= MaxStored
    /\ \E request \in SdxlRequests :
         \E h \in SdxlOutcomes("sdxl/generate", request, FALSE) :
           /\ sdxl_cache' = h.cache
           /\ output_dir' = Written(output_dir, h.saved)
           /\ load_failed' = Attempted(load_failed, "sdxl", h)
           /\ last' = Served("sdxl/generate", "sdxl", request, h)
           /\ UNCHANGED <<flux_cache, cuda, page_vars, text_vars>>
           /\ UNCHANGED loop_vars

SdxlTransform ==
    /\ last = NoRequest
    /\ Cardinality(output_dir) <= MaxStored
    /\ \E request \in SdxlRequests :
         \E h \in SdxlOutcomes("sdxl/transform", request, TRUE) :
           /\ sdxl_cache' = h.cache
           /\ output_dir' = Written(output_dir, h.saved)
           /\ load_failed' = Attempted(load_failed, "sdxl", h)
           /\ last' = Served("sdxl/transform", "sdxl", request, h)
           /\ UNCHANGED <<flux_cache, cuda, page_vars, text_vars>>
           /\ UNCHANGED loop_vars

Listed(endpoint, fs, body) ==
    [NoRequest EXCEPT !.endpoint = endpoint,
                      !.flux_before = flux_cache, !.sdxl_before = sdxl_cache,
                      !.dir_before = output_dir, !.failed_before = load_failed,
                      !.disk = fs, !.body = body,
                      !.response = [status |-> 200, detail |-> "", images |-> <<>>,
                                    seed |-> None]]

ListModels ==
    /\ last = NoRequest
    /\ \E fs \in SUBSET ModelFiles :
         last' = Listed("models", fs, list_models(fs))
    /\ UNCHANGED <<flux_cache, sdxl_cache, cuda, page_vars, text_vars, output_dir,
                   load_failed>>
    /\ UNCHANGED loop_vars

GetModelsConfig ==
    /\ last = NoRequest
    /\ \E fs \in SUBSET ModelFiles :
         last' = Listed("models/config", fs, get_models_config(fs))
    /\ UNCHANGED <<flux_cache, sdxl_cache, cuda, page_vars, text_vars, output_dir,
                   load_failed>>
    /\ UNCHANGED loop_vars

\* The response leaves and the handler's frame is gone; the event loop
\* takes the next request.  The handlers never await, so the loop runs one
\* of them at a time, from its first line to its return or raise.
Respond ==
    /\ last # NoRequest
    /\ last' = NoRequest
    /\ UNCHANGED <<flux_cache, sdxl_cache, cuda, page_vars, text_vars, output_dir,
                   load_failed>>
    /\ UNCHANGED loop_vars

Next ==
    \/ FluxGenerate
    \/ FluxTransform
    \/ SdxlGenerate
    \/ SdxlTransform
    \/ ListModels
    \/ GetModelsConfig
    \/ Respond

Spec == Init /\ [][Next]_vars

----------------------------------------------------------------------------
(* The Streamlit page 3_SDXL_Image_Generator.py: a process of its own.     *)
(* Streamlit runs the script of every browser session in a thread of its   *)
(* own.  Each session has its st.session_state; the pipeline kept by       *)
(* load_sdxl_model (st.cache_resource) and the seed of torch's global      *)
(* generator belong to the process, so all sessions share them, and the    *)
(* threads of two sessions can take turns between any two steps.           *)

\* st.slider("Number of Images", min_value=1, max_value=4)
PageMaxImages == 4

\* What np.random.randint(0, 10**9) can return in the loop; what the
\* number_input "Seed" (0..999999999) can hold; what the "Random Seed"
\* button can draw with np.random.randint(0, 999999999).
PageDraws == {0, 7}
PageSeeds == {0, 42}
PageButtonDraws == {7}

PagePipeline == Pipeline(1, "sdxl", FALSE, FALSE)

\* The script run of a session: the arguments of generate_images, the loop
\* index i, the list "images", and the statement the thread is about to
\* execute (idle: no run under way; seed: torch.manual_seed; progress:
\* st.progress; invoke: the pipeline call; store: the sleep after the loop
\* and the writes to st.session_state).
Run(pc, num_images, seed, use_fixed_seed, i, images) ==
    [pc |-> pc, num_images |-> num_images, seed |-> seed,
     use_fixed_seed |-> use_fixed_seed, i |-> i, images |-> images]

\* "if use_fixed_seed: torch.manual_seed(seed + i)
\*  else: torch.manual_seed(np.random.randint(0, 10**9))"
page_manual_seed(seed, use_fixed_seed, i, drawn) ==
    IF use_fixed_seed THEN manual_seed(seed, i) ELSE drawn

\* st.session_state["generation_params"]: "seed": seed if use_fixed_seed
\* else "Random" (None stands for the text "Random": no number is kept)
generation_params(seed, use_fixed_seed) ==
    [seed |-> IF use_fixed_seed THEN Some(seed) ELSE None]

PageFrame ==
    /\ UNCHANGED <<flux_cache, sdxl_cache, cuda, output_dir, load_failed, last,
                   text_vars>>
    /\ UNCHANGED loop_vars

\* The "Generate Images" button of a session whose script is not running:
\* the script runs and calls generate_images.  Without the "Fixed Seed"
\* checkbox, seed is 0.
PageGenerate ==
    /\ clicks < MaxClicks
    /\ \E s \in Sessions, num_images \in 1..Min(PageMaxImages, MaxPageImages),
          use_fixed_seed \in BOOLEAN :
         \E seed \in (IF use_fixed_seed THEN PageSeeds ELSE {0}) :
           /\ scripts[s].pc = "idle"
           /\ scripts' = [scripts EXCEPT
                            ![s] = Run("seed", num_images, seed, use_fixed_seed, 0, <<>>)]
    /\ clicks' = clicks + 1
    /\ UNCHANGED <<session_state, torch_seed>>
    /\ PageFrame

\* Iteration i sets the seed of the process's generator.
PageManualSeed ==
    /\ \E s \in Sessions, drawn \in PageDraws :
         /\ scripts[s].pc = "seed"
         /\ ~scripts[s].use_fixed_seed \/ drawn = 0
         /\ torch_seed' = page_manual_seed(scripts[s].seed, scripts[s].use_fixed_seed,
                                           scripts[s].i, drawn)
         /\ scripts' = [scripts EXCEPT ![s].pc = "progress"]
    /\ UNCHANGED <<session_state, clicks>>
    /\ PageFrame

\* Iteration i updates the progress bar.
PageProgress ==
    /\ \E s \in Sessions :
         /\ scripts[s].pc = "progress"
         /\ scripts' = [scripts EXCEPT ![s].pc = "invoke"]
    /\ UNCHANGED <<session_state, torch_seed, clicks>>
    /\ PageFrame

\* Iteration i calls the pipeline, which samples under the seed the
\* process's generator has at that moment, and appends the image.
PageInvoke ==
    /\ \E s \in Sessions :
         /\ scripts[s].pc = "invoke"
         /\ scripts' = [scripts EXCEPT
                          ![s].images = Append(@, PipelineCall(PagePipeline, torch_seed,
                                                               "blurry")),
                          ![s].i = @ + 1,
                          ![s].pc = IF scripts[s].i + 1 < range(scripts[s].num_images)
                                    THEN "seed" ELSE "store"]
    /\ UNCHANGED <<session_state, torch_seed, clicks>>
    /\ PageFrame

\* After the loop: time.sleep(0.5), generate_images returns, and the batch
\* is stored with its parameters in the session's state.
PageStore ==
    /\ \E s \in Sessions :
         /\ scripts[s].pc = "store"
         /\ session_state' =
              [session_state EXCEPT
                 ![s] = DictSet(DictSet(@, "generated_images", scripts[s].images),
                                "generation_params",
                                generation_params(scripts[s].seed,
                                                  scripts[s].use_fixed_seed))]
         /\ scripts' = [scripts EXCEPT ![s] = NoRun]
    /\ UNCHANGED <<torch_seed, clicks>>
    /\ PageFrame

\* The "Clear All" button.
PageClearAll ==
    /\ clicks < MaxClicks
    /\ \E s \in Sessions :
         /\ scripts[s].pc = "idle"
         /\ session_state' =
              [session_state EXCEPT
                 ![s] = DictDel(DictDel(@, "generated_images"), "generation_params")]
    /\ clicks' = clicks + 1
    /\ UNCHANGED <<torch_seed, scripts>>
    /\ PageFrame

\* The "Random Seed" button.
PageRandomSeed ==
    /\ clicks < MaxClicks
    /\ \E s \in Sessions, drawn \in PageButtonDraws :
         /\ scripts[s].pc = "idle"
         /\ session_state' = [session_state EXCEPT ![s] = DictSet(@, "random_seed", drawn)]
    /\ clicks' = clicks + 1
    /\ UNCHANGED <<torch_seed, scripts>>
    /\ PageFrame

NextPage ==
    \/ PageGenerate
    \/ PageManualSeed
    \/ PageProgress
    \/ PageInvoke
    \/ PageStore
    \/ PageClearAll
    \/ PageRandomSeed

SpecPage == Init /\ [][NextPage]_vars

----------------------------------------------------------------------------
(* text_generation.py: the text model, its cache and the two handlers.     *)

\* What can go wrong while the model loads: "from transformers import"
\* raises ImportError, or one of the two from_pretrained calls raises.
TextLoadFaults == {"none", "import", "tokenizer", "model"}

TextModel == [name |-> "NSFW-flash", attn_implementation |-> "eager"]

\* "if tokenizer.pad_token is None: tokenizer.pad_token = tokenizer.eos_token"
Tokenizer(pad_token) ==
    [pad_token |-> IF pad_token = None THEN "eos_token" ELSE pad_token[1]]

TextGot(cache, exc, events) == [cache |-> cache, exc |-> exc, events |-> events]

\* "except Exception as e: raise HTTPException(status_code=500,
\* detail=f'Error loading model: {str(e)}')": the detail is kept as its
\* fixed part.
ErrorLoadingModel(e) == HTTPException(500, "Error loading model")

\* get_text_model: on a miss, import, look for the model directory, load
\* the tokenizer and the model, store both.  Every raise of the miss branch
\* is inside its try; the HTTPException(404) is an Exception and not an
\* ImportError, so the second except clause catches it.
get_text_model(cache, found, fault, pad_token) ==
    IF "text_model" \in DOMAIN cache
    THEN TextGot(cache, NoExc, <<>>)
    ELSE
      LET e_import == <<Ev("import", IF fault = "import" THEN 0 ELSE 1)>>
          e_exists == <<Ev("exists", IF found THEN 1 ELSE 0)>>
          e_tok    == <<Ev("tokenizer", IF fault = "tokenizer" THEN 0 ELSE 1)>>
          e_model  == <<Ev("model", IF fault = "model" THEN 0 ELSE 1)>>
          e_store  == <<Ev("store", 1)>>
      IN  IF fault = "import"
          THEN TextGot(cache, HTTPException(500, "transformers library not installed"),
                       e_import)
          ELSE IF ~found
          THEN TextGot(cache,
                       ErrorLoadingModel(HTTPException(404,
                                                       "Text generation model not found")),
                       e_import \o e_exists)
          ELSE IF fault = "tokenizer"
          THEN TextGot(cache, ErrorLoadingModel(Raised("tokenizer")),
                       e_import \o e_exists \o e_tok)
          ELSE IF fault = "model"
          THEN TextGot(cache, ErrorLoadingModel(Raised("model")),
                       e_import \o e_exists \o e_tok \o e_model)
          ELSE TextGot(DictSet(DictSet(cache, "text_model", TextModel),
                               "text_tokenizer", Tokenizer(pad_token)),
                       NoExc, e_import \o e_exists \o e_tok \o e_model \o e_store)

\* class TextGenerateRequest / class ChatRequest: the Field bounds
TextGenerateRequest(r) == r.max_length >= 50 /\ r.max_length <= 2048

\* Texts are sequences of words.
startswith(text, prefix) ==
    Len(text) >= Len(prefix) /\ SubSeq(text, 1, Len(prefix)) = prefix
Contains(text, word) == \E j \in DOMAIN text : text[j] = word
\* text.split(word)[-1] and text.split(word)[0], when word is in text
AfterLast(text, word) ==
    LET j == CHOOSE k \in DOMAIN text :
               text[k] = word /\ \A m \in (k + 1)..Len(text) : text[m] # word
    IN  SubSeq(text, j + 1, Len(text))
BeforeFirst(text, word) ==
    LET j == CHOOSE k \in DOMAIN text :
               text[k] = word /\ \A m \in 1..(k - 1) : text[m] # word
    IN  SubSeq(text, 1, j - 1)

TextHandled(got, raised, response, events) ==
    [cache |-> got.cache, raised |-> raised, response |-> response, events |-> events]

\* POST /generate: the model's output has the prompt cut off its front.
\* "except Exception as e: raise HTTPException(status_code=500, ...)"
generate_text(request, cache, found, fault, pad_token, decoded, generates) ==
    IF ~TextGenerateRequest(request)
    THEN TextHandled(TextGot(cache, NoExc, <<>>), NoExc,
                     TextError(422, "request validation"), <<>>)
    ELSE
      LET got == get_text_model(cache, found, fault, pad_token)
      IN  IF got.exc # NoExc
          THEN TextHandled(got, got.exc, TextError(500, got.exc.kind), got.events)
          ELSE IF ~generates
          THEN TextHandled(got, NoExc, TextError(500, "generation"),
                           got.events \o <<Ev("generate", 0)>>)
          ELSE TextHandled(got, NoExc,
                           TextResponse(IF startswith(decoded, request.prompt)
                                        THEN SubSeq(decoded, Len(request.prompt) + 1,
                                                    Len(decoded))
                                        ELSE decoded),
                           got.events \o <<Ev("generate", 1)>>)

\* The loop "for msg in request.messages" of POST /chat: one line per user
\* or assistant message; a message of any other role adds nothing.
RECURSIVE ConversationLines(_)
ConversationLines(messages) ==
    IF messages = <<>>
    THEN <<>>
    ELSE LET msg == messages[Len(messages)]
             before == ConversationLines(SubSeq(messages, 1, Len(messages) - 1))
         IN  IF msg.role = "user" THEN before \o <<"User:">> \o msg.content
             ELSE IF msg.role = "assistant"
             THEN before \o <<"Assistant:">> \o msg.content
             ELSE before

\* The conversation prompt handed to the tokenizer: the lines of the
\* messages, then 'conversation += "Assistant:"'.
Conversation(messages) == ConversationLines(messages) \o <<"Assistant:">>

\* POST /chat: the assistant's answer is what follows the last
\* "Assistant:" of the model's output, up to a following "User:".
chat(request, cache, found, fault, pad_token, decoded, generates) ==
    IF ~TextGenerateRequest(request)
    THEN TextHandled(TextGot(cache, NoExc, <<>>), NoExc,
                     TextError(422, "request validation"), <<>>)
    ELSE
      LET got == get_text_model(cache, found, fault, pad_token)
          last_part == IF Contains(decoded, "Assistant:")
                       THEN AfterLast(decoded, "Assistant:")
                       ELSE decoded
          assistant_response == IF Contains(decoded, "Assistant:")
                                   /\ Contains(last_part, "User:")
                                THEN BeforeFirst(last_part, "User:")
                                ELSE last_part
      IN  IF got.exc # NoExc
          THEN TextHandled(got, got.exc, TextError(500, got.exc.kind), got.events)
          ELSE IF ~generates
          THEN TextHandled(got, NoExc, TextError(500, "generation"),
                           got.events \o <<Ev("generate", 0)>>)
          ELSE TextHandled(got, NoExc, TextResponse(assistant_response),
                           got.events \o <<Ev("generate", 1)>>)

\* The requests of the text clients, and what the model can answer.
TextPrompt == <<"once", "upon">>
TextMessages ==
    {<<[role |-> "user", content |-> TextPrompt]>>,
     <<[role |-> "system", content |-> <<"be", "kind">>],
       [role |-> "user", content |-> TextPrompt]>>,
     <<[role |-> "user", content |-> TextPrompt],
       [role |-> "assistant", content |-> <<"a", "time">>],
       [role |-> "user", content |-> <<"and", "then">>]>>}
TextRequests ==
    {[prompt |-> TextPrompt, messages |-> ms, max_length |-> m] :
       ms \in TextMessages, m \in {49, 50, 512, 2048, 2049}}
Decoded(endpoint, request) ==
    IF endpoint = "text/generate"
    THEN {request.prompt \o <<"a", "time">>, <<"a", "time">>}
    ELSE {Conversation(request.messages) \o <<"hello">>,
          Conversation(request.messages) \o <<"hello", "User:", "more">>,
          <<"hello">>}
PadTokens == {None, Some("pad_token")}

\* Every way a text handler can go on a request.
TextOutcomes(endpoint, request) ==
    LET run(found, fault, pad_token, decoded, generates) ==
          IF endpoint = "text/generate"
          THEN generate_text(request, text_cache, found, fault, pad_token, decoded,
                             generates)
          ELSE chat(request, text_cache, found, fault, pad_token, decoded, generates)
        probe == run(TRUE, "none", None, <<>>, TRUE)
    IN  {[h |-> run(env.found, env.fault, env.pad_token, env.decoded, env.generates),
          found |-> env.found] :
           env \in [found : IF Did(probe, "exists") THEN BOOLEAN ELSE {TRUE},
                    fault : IF Did(probe, "import") THEN TextLoadFaults ELSE {"none"},
                    pad_token : IF Did(probe, "store") THEN PadTokens ELSE {None},
                    decoded : IF Did(probe, "generate") THEN Decoded(endpoint, request)
                              ELSE {<<>>},
                    generates : IF Did(probe, "generate") THEN BOOLEAN ELSE {TRUE}]}

TextServed(endpoint, request, o) ==
    [endpoint |-> endpoint, request |-> request, cache_before |-> text_cache,
     found |-> o.found, raised |-> o.h.raised, events |-> o.h.events,
     response |-> o.h.response]
GenerateText ==
    /\ \E request \in TextRequests :
         \E o \in TextOutcomes("text/generate", request) :
           /\ text_cache' = o.h.cache
           /\ text_last' = TextServed("text/generate", request, o)
    /\ UNCHANGED <<flux_cache, sdxl_cache, cuda, output_dir, load_failed, last,
                   page_vars>>
    /\ UNCHANGED loop_vars

Chat ==
    /\ \E request \in TextRequests :
         \E o \in TextOutcomes("text/chat", request) :
           /\ text_cache' = o.h.cache
           /\ text_last' = TextServed("text/chat", request, o)
    /\ UNCHANGED <<flux_cache, sdxl_cache, cuda, output_dir, load_failed, last,
                   page_vars>>
    /\ UNCHANGED loop_vars

\* GET /config: whether the model directory is there; reads no cache.
get_text_config(found) ==
    [status |-> 200, detail |-> "", text |-> <<>>, available |-> found]

GetTextConfig ==
    /\ \E found \in BOOLEAN :
         text_last' = [NoTextRequest EXCEPT !.endpoint = "text/config",
                                            !.cache_before = text_cache,
                                            !.found = found,
                                            !.response = get_text_config(found)]
    /\ UNCHANGED <<flux_cache, sdxl_cache, cuda, output_dir, load_failed, last,
                   page_vars, text_cache>>
    /\ UNCHANGED loop_vars

NextText ==
    \/ GenerateText
    \/ Chat
    \/ GetTextConfig

SpecText == Init /\ [][NextText]_vars

----------------------------------------------------------------------------
(* The event loop (uvicorn.run(app): one process, one loop).               *)

\* Mutant: the pipeline call is awaited (run in a worker thread).
AwaitPoints_generation == {"invoke"}

\* Mutant: the model load is awaited (run in a worker thread).
AwaitPoints_load == {"construct", "load_model"}

\* The steps of a handler at which it awaits, that is, where the loop may
\* run another coroutine before this one goes on.  The four handlers are
\* "async def" and contain no await: the loaders, the pipeline call and the
\* file writes are plain blocking calls.
AwaitPoints == {}

\* The loop can run coroutine t: it is free, or t holds it, or the holder
\* is suspended at an await.
CanRun(t) ==
    IF running = 0 \/ running = t
    THEN TRUE
    ELSE /\ tasks[running].at > 0
         /\ tasks[running].h.events[tasks[running].at].e \in AwaitPoints

Endpoints == {"flux/generate", "flux/transform", "sdxl/generate", "sdxl/transform"}
Family(endpoint) == IF endpoint \in {"flux/generate", "flux/transform"} THEN "flux" ELSE "sdxl"
\* What the clients of the loop send: a batch of two to the generate
\* endpoints, a single image (the Form default) to the transform endpoints.
LoopRequest(endpoint) ==
    CASE endpoint = "flux/generate" -> FluxBase
      [] endpoint = "flux/transform" -> [FluxBase EXCEPT !.num_images = 1]
      [] endpoint = "sdxl/generate" -> SdxlBase
      [] endpoint = "sdxl/transform" -> [SdxlBase EXCEPT !.num_images = 1]
\* The courses a handler can take, with the model files in place: the
\* LoRA file present or not, the last step of a load failing or not, and
\* every course of the loop.
LoopOutcomes(endpoint) ==
    IF Family(endpoint) = "flux"
    THEN Outcomes(endpoint, LoopRequest(endpoint), {0}, {"none", "offload"}, {LoraFile},
                  endpoint = "flux/transform")
    ELSE Outcomes(endpoint, LoopRequest(endpoint), {0}, {"none", "construct"}, {},
                  endpoint = "sdxl/transform")

Turn(t) == IF turns # <<>> /\ turns[Len(turns)] = t THEN turns ELSE Append(turns, t)

\* A client connects and sends a request; it waits for the loop.
\* Connections are numbered in the order they arrive.
Arrive ==
    \E t \in 1..MaxTasks :
        /\ tasks[t].state = "idle"
        /\ \A u \in 1..(t - 1) : tasks[u].state # "idle"
        /\ tasks' = [tasks EXCEPT ![t].state = "queued"]
        /\ UNCHANGED <<flux_cache, sdxl_cache, cuda, page_vars, text_vars, output_dir,
                       load_failed, last,
                       running, turns>>

\* The loop calls the handler of a waiting request.
Start ==
    \E t \in 1..MaxTasks, endpoint \in Endpoints :
        /\ tasks[t].state = "queued"
        /\ CanRun(t)
        /\ \E h \in LoopOutcomes(endpoint) :
             tasks' = [tasks EXCEPT ![t] = [state |-> "running", endpoint |-> endpoint,
                                            family |-> Family(endpoint), h |-> h,
                                            at |-> 0, cancelled |-> -1]]
        /\ running' = t
        /\ turns' = Turn(t)
        /\ UNCHANGED <<flux_cache, sdxl_cache, cuda, page_vars, text_vars, output_dir,
                       load_failed, last>>

\* What a step of a handler does to its module's cache and to OUTPUT_DIR.
CacheAfter(cache, ev, h) ==
    IF ev.e = "clear" THEN EmptyDict
    ELSE IF ev.e = "store" THEN h.cache
    ELSE cache
DirAfter(dir, ev, h) ==
    IF ev.e = "save" THEN Written(dir, <<h.saved[ev.v + 1]>>) ELSE dir

\* The running handler performs its next step.
Step ==
    \E t \in 1..MaxTasks :
        /\ tasks[t].state = "running"
        /\ tasks[t].at < Len(tasks[t].h.events)
        /\ CanRun(t)
        /\ LET ev == tasks[t].h.events[tasks[t].at + 1]
           IN  /\ flux_cache' = IF tasks[t].family = "flux"
                                THEN CacheAfter(flux_cache, ev, tasks[t].h)
                                ELSE flux_cache
               /\ sdxl_cache' = IF tasks[t].family = "sdxl"
                                THEN CacheAfter(sdxl_cache, ev, tasks[t].h)
                                ELSE sdxl_cache
               /\ output_dir' = DirAfter(output_dir, ev, tasks[t].h)
        /\ tasks' = [tasks EXCEPT ![t].at = @ + 1]
        /\ running' = t
        /\ turns' = Turn(t)
        /\ UNCHANGED <<cuda, page_vars, text_vars, load_failed, last>>

\* The running handler returns or raises: its response is sent.
Return ==
    \E t \in 1..MaxTasks :
        /\ tasks[t].state = "running"
        /\ tasks[t].at = Len(tasks[t].h.events)
        /\ CanRun(t)
        /\ tasks' = [tasks EXCEPT ![t] = Done]
        /\ running' = IF running = t THEN 0 ELSE running
        /\ turns' = Turn(t)
        /\ UNCHANGED <<flux_cache, sdxl_cache, cuda, page_vars, text_vars, output_dir,
                       load_failed, last>>

\* The client of a running request disconnects while the pipeline call of
\* one image is under way.  No handler looks at the connection.
Cancel ==
    \E t \in 1..MaxTasks :
        /\ tasks[t].state = "running"
        /\ tasks[t].cancelled = -1
        /\ tasks[t].at < Len(tasks[t].h.events)
        /\ tasks[t].h.events[tasks[t].at + 1].e = "invoke"
        /\ tasks' = [tasks EXCEPT ![t].cancelled = tasks[t].at + 1]
        /\ UNCHANGED <<flux_cache, sdxl_cache, cuda, page_vars, text_vars, output_dir,
                       load_failed, last,
                       running, turns>>

NextLoop ==
    \/ Arrive
    \/ Start
    \/ Step
    \/ Return
    \/ Cancel

SpecLoop == Init /\ [][NextLoop]_vars

----------------------------------------------------------------------------
(* Vocabulary of the properties.                                           *)

FluxResident == "flux_pipeline" \in DOMAIN flux_cache
SdxlResident == "sdxl_pipeline" \in DOMAIN sdxl_cache

\* The events of one kind, in order, and their values.
Only(events, e) == SelectSeq(events, LAMBDA x : x.e = e)
Values(events, e) == [j \in DOMAIN Only(events, e) |-> Only(events, e)[j].v]

\* The steps of a load: anything a get-or-create call does on a miss.
LoadSteps ==
    {"clear", "measure", "reclaim", "admission", "exists", "exists_lora", "load_model",
     "construct", "load_lora", "offload", "store"}
NoLoadStep(events) == \A j \in DOMAIN events : events[j].e \notin LoadSteps

\* Pipelines released by the request: what its cache clearing let go of.
Evictions(events) ==
    Cardinality({j \in DOMAIN events : events[j].e = "clear" /\ events[j].v > 0})

\* The cache of the request's own family, before and after, and the other's.
OwnBefore == IF last.family = "flux" THEN last.flux_before ELSE last.sdxl_before
OwnAfter  == IF last.family = "flux" THEN flux_cache ELSE sdxl_cache
OwnKey    == IF last.family = "flux" THEN "flux_pipeline" ELSE "sdxl_pipeline"
OtherBefore == IF last.family = "flux" THEN last.sdxl_before ELSE last.flux_before
OtherAfter  == IF last.family = "flux" THEN sdxl_cache ELSE flux_cache
OtherKey    == IF last.family = "flux" THEN "sdxl_pipeline" ELSE "flux_pipeline"

\* a generation request (not a listing) was just handled
IsRequest == last.family # "none"
Succeeded == IsRequest /\ last.response.status = 200

----------------------------------------------------------------------------
(* C1: at most one pipeline is resident at any instant: the FLUX pipeline  *)
(* and the SDXL pipeline are never both held in a model cache.             *)
(* The code keeps one cache per route module and clears only its own, so   *)
(* this is violated: FLUX generate, then SDXL generate.                    *)
C1_AtMostOneResident == ~(FluxResident /\ SdxlResident)

(* C2: a request for a family other than the resident one evicts the       *)
(* resident pipeline before the new one is loaded: when a request finds    *)
(* the other family resident and makes its own resident, it performed      *)
(* exactly one eviction and the other family is no longer resident.        *)
(* Violated: the request's clear() releases nothing of the other module.   *)
C2_SwitchEvictsOnce ==
    (/\ IsRequest
     /\ OtherKey \in DOMAIN OtherBefore
     /\ OwnKey \notin DOMAIN OwnBefore
     /\ OwnKey \in DOMAIN OwnAfter)
    => (Evictions(last.events) = 1 /\ OtherKey \notin DOMAIN OtherAfter)

(* C3: a request for the family that is already resident is a cache hit:   *)
(* it performs no load step (no clear, reclaim, measurement, admission     *)
(* check, construction or store), evicts nothing, leaves the cache as it   *)
(* was, and works with the very pipeline that was cached.                  *)
Rejected ==
    \/ last.response.status = 422
    \/ last.response.detail = DivisibleBy16.kind
C3_CacheHit ==
    (IsRequest /\ OwnKey \in DOMAIN OwnBefore)
    => /\ NoLoadStep(last.events)
       /\ Evictions(last.events) = 0
       /\ OwnAfter = OwnBefore
       /\ (~Rejected => last.pipeline = OwnBefore[OwnKey])
C3_Witness ==
    /\ Succeeded
    /\ OwnKey \in DOMAIN OwnBefore
    /\ Len(last.response.images) = 2
    /\ last.pipeline = OwnBefore[OwnKey]

(* C4: with an explicit seed s, the seed installed right before the i-th  *)
(* image of the result is generated is s+i (i from 0), in result order,    *)
(* nothing reordered or skipped, and the response reports s.               *)
C4_ExplicitSeedOffsets ==
    (Succeeded /\ last.request.seed # None)
    => LET s == last.request.seed[1]
           n == Len(last.response.images)
           ev == last.events
       IN  /\ n = Max(last.request.num_images, 0)
           /\ Values(ev, "seed") = [i \in 1..n |-> s + (i - 1)]
           /\ Values(ev, "invoke") = [i \in 1..n |-> i - 1]
           /\ \A j \in DOMAIN ev :
                ev[j].e = "invoke" => (j > 1 /\ ev[j - 1] = Ev("seed", s + ev[j].v))
           /\ \A i \in 1..n : last.response.images[i].base64.seed = s + (i - 1)
           /\ last.response.seed = Some(s)
C4_Witness ==
    /\ Succeeded
    /\ last.endpoint = "sdxl/transform"
    /\ last.request.seed = Some(42)
    /\ Len(last.response.images) = 4
    /\ Values(last.events, "seed") = <<42, 43, 44, 45>>

(* C5: when the seed is omitted, one base seed b is drawn for the request  *)
(* (not one per image), image i is generated under b+i, and the response   *)
(* reports b, so that the same request with the explicit seed b installs   *)
(* the same sequence of seeds.                                             *)
C5_OmittedSeedDrawnOnce ==
    (Succeeded /\ last.request.seed = None)
    => LET draws == Values(last.events, "draw")
           n == Len(last.response.images)
       IN  /\ Len(draws) = 1
           /\ draws[1] >= 0 /\ draws[1] < SeedHigh
           /\ last.response.seed = Some(draws[1])
           /\ Values(last.events, "seed") = [i \in 1..n |-> draws[1] + (i - 1)]
           /\ \A i \in 1..n : last.response.images[i].base64.seed = draws[1] + (i - 1)
           /\ Values(Batch(last.pipeline, last.response.seed[1], last.request.num_images,
                           -1, "resubmitted", output_dir, "").events, "seed")
              = Values(last.events, "seed")
C5_Witness ==
    /\ Succeeded
    /\ last.endpoint = "flux/generate"
    /\ last.request.seed = None
    /\ Len(last.response.images) = 3
    /\ last.response.seed = Some(SeedHigh - 1)
    /\ Values(last.events, "seed") = <<SeedHigh - 1, SeedHigh, SeedHigh + 1>>

(* C6: a FLUX generate or transform request whose width or height is not   *)
(* a multiple of 16 is rejected before any cache interaction: it performs  *)
(* no load, eviction, reclaim or admission step, no pipeline call and no   *)
(* file write, and both caches are as they were.                           *)
BadDimensions == last.request.width % 16 # 0 \/ last.request.height % 16 # 0
C6_BadDimensionsTouchNothing ==
    (IsRequest /\ last.family = "flux" /\ BadDimensions)
    => /\ last.events = <<>>
       /\ last.pipeline = NoPipeline
       /\ last.response.status # 200
       /\ last.response.images = <<>>
       /\ flux_cache = last.flux_before
       /\ sdxl_cache = last.sdxl_before
C6_Witness ==
    /\ last.endpoint = "flux/transform"
    /\ last.request.height = 1000
    /\ cuda
    /\ last.flux_before = EmptyDict /\ last.sdxl_before = EmptyDict
    /\ last.response.status # 200
    /\ last.events = <<>>

(* C7: on every endpoint, the transform endpoints included, a request whose *)
(* image count is outside 1..4, whose step count is outside the family's   *)
(* range or whose guidance/CFG value is outside the family's range is      *)
(* rejected before the pipeline is acquired: nothing is loaded for it.     *)
(* Violated: the transform endpoints take unbounded Form fields.           *)
OutOfRange ==
    LET r == last.request
    IN  \/ r.num_images < 1 \/ r.num_images > 4
        \/ r.steps < 10 \/ r.steps > 50
        \/ (last.family = "flux" /\ (r.guidance < 10 \/ r.guidance > 50))
        \/ (last.family = "flux" /\ (r.cfg_scale < 10 \/ r.cfg_scale > 30))
        \/ (last.family = "sdxl" /\ (r.cfg_scale < 10 \/ r.cfg_scale > 150))
C7_RangesCheckedBeforeAcquire ==
    (IsRequest /\ OutOfRange)
    => /\ last.response.status # 200
       /\ last.pipeline = NoPipeline
       /\ ~Did(last, "load_model") /\ ~Did(last, "construct")
       /\ flux_cache = last.flux_before /\ sdxl_cache = last.sdxl_before

(* C8: a FLUX request with a dimension that is not a multiple of 16 ends   *)
(* with the 400 status of a validation error, which is not the status a    *)
(* failure in the middle of generation is delivered with.                  *)
(* Violated: the handler's own "except Exception" turns the 400 into 500.  *)
GenerationFailureStatus == except_Exception(Raised("generation")).status
C8_ValidationErrorIs400 ==
    (IsRequest /\ last.family = "flux" /\ BadDimensions)
    => /\ last.response.status = 400
       /\ last.response.status # GenerationFailureStatus

(* C9: on a cold cache, when the memory still allocated after the reclaim  *)
(* exceeds the threshold, a FLUX request ends with the 503 status, nothing *)
(* is constructed, the guard measured once without retrying, and the cache *)
(* is empty afterwards.                                                    *)
(* Violated: the caller receives 500, the 503 is caught by the handler.    *)
Denied == \E j \in DOMAIN last.events : last.events[j] = Ev("admission", 0)
C9_DeniedIs503 ==
    (/\ IsRequest /\ last.family = "flux" /\ Denied
     /\ last.flux_before = EmptyDict /\ last.sdxl_before = EmptyDict)
    => /\ last.response.status = 503
       /\ ~Did(last, "construct")
       /\ Len(Only(last.events, "reclaim")) = 1
       /\ Len(Only(last.events, "admission")) = 1
       /\ flux_cache = EmptyDict /\ sdxl_cache = EmptyDict

(* C10: for both families, every construction of a pipeline on a cache     *)
(* miss comes after a memory reclaim and then a passed admission check.    *)
(* Violated: get_pipeline of sdxl.py constructs without any admission      *)
(* check.                                                                  *)
C10_AdmissionBeforeConstruct ==
    IsRequest
    => \A j \in DOMAIN last.events :
         last.events[j].e = "construct"
         => \E a, b \in 1..(j - 1) :
              /\ a < b
              /\ last.events[a].e = "reclaim"
              /\ last.events[b] = Ev("admission", 1)

(* C11: when a load fails at any step (admission denied, the model file   *)
(* missing, construction, LoRA loading, enabling the offload), the cache   *)
(* of the family that was loading holds no entry afterwards, and the next  *)
(* request of that family that reaches the loader starts a load from its   *)
(* first step: it finds the cache empty, clears, reclaims, and constructs  *)
(* only after every earlier step of the load ran again.                    *)
LoadFailed == IsRequest /\ Did(last, "clear") /\ ~Did(last, "store")
FirstLoadSteps ==
    IF last.family = "flux"
    THEN IF cuda THEN <<"clear", "measure", "reclaim", "measure", "admission">>
         ELSE <<"clear", "reclaim">>
    ELSE IF cuda THEN <<"clear", "reclaim", "load_model">>
         ELSE <<"clear", "reclaim">>
C11_FailedLoadLeavesEmpty ==
    /\ LoadFailed
       => /\ OwnAfter = EmptyDict
          /\ last.pipeline = NoPipeline
          /\ last.response.status # 200
          /\ last.family \in load_failed
    /\ (IsRequest /\ last.family \in last.failed_before /\ ~Rejected)
       => /\ OwnBefore = EmptyDict
          /\ Len(last.events) >= Len(FirstLoadSteps)
          /\ \A j \in DOMAIN FirstLoadSteps : last.events[j].e = FirstLoadSteps[j]
C11_Witness ==
    /\ Succeeded
    /\ last.endpoint = "flux/generate"
    /\ "flux" \in last.failed_before
    /\ "flux" \notin load_failed
    /\ Did(last, "store")
    /\ Len(last.response.images) = 2

(* C12: for both families, a request that gets as far as looking for the  *)
(* family's model file and finds it missing is answered with the 404       *)
(* "model not found" status, which differs from the statuses given for a   *)
(* validation error, for a denied admission and for a failed generation.   *)
(* Violated: the FLUX loader's 404 is caught by the handler's "except      *)
(* Exception" and leaves as 500; the SDXL loader never tests for the file  *)
(* and the error of load_model leaves as 500 too.                          *)
MissingManifest ==
    \E j \in DOMAIN last.events :
        last.events[j] \in {Ev("exists", 0), Ev("load_model", 0)}
C12_MissingManifestIs404 ==
    (IsRequest /\ MissingManifest)
    => /\ last.response.status = 404
       /\ last.response.status # except_Exception(DivisibleBy16).status
       /\ last.response.status # GenerationFailureStatus

(* C13: under every interleaving of concurrent requests the event loop    *)
(* allows, the span of a handler from acquiring its pipeline to the end of *)
(* its batch loop is exclusive: while a request is in that span no other   *)
(* handler is running, and no other handler has taken a step (acquired or  *)
(* called a pipeline, loaded, cleared a cache) since this one started, so  *)
(* requests are served one at a time, whatever their family and endpoint.  *)
Acquired(task) ==
    /\ task.state = "running"
    /\ task.h.pipeline # NoPipeline
    /\ \A j \in DOMAIN task.h.events : task.h.events[j].e = "store" => j <= task.at
InSection(t) == Acquired(tasks[t])
RunningTasks == {t \in 1..MaxTasks : tasks[t].state = "running"}
C13_ExclusiveSection ==
    /\ \A a \in 1..MaxTasks :
         InSection(a)
         => /\ RunningTasks = {a}
            /\ running = a
            /\ turns[Len(turns)] = a
    /\ \A i, j \in DOMAIN turns : i # j => turns[i] # turns[j]
C13_Witness ==
    /\ InSection(2)
    /\ tasks[2].family = "sdxl"
    /\ tasks[2].at < Len(tasks[2].h.events)
    /\ tasks[2].h.events[tasks[2].at + 1] = Ev("invoke", 1)
    /\ tasks[1].state = "queued"
    /\ tasks[3].state = "done"
    /\ FluxResident

(* C14: a load is atomic for the other requests.  A handler that holds a   *)
(* pipeline holds the one its module's cache refers to (never one that was *)
(* cleared from the cache or replaced in it), and from the moment a loader *)
(* clears its cache until it stores the new pipeline or fails, no other    *)
(* handler runs: a request that arrives meanwhile waits.                   *)
OwnCache(task) == IF task.family = "flux" THEN flux_cache ELSE sdxl_cache
OwnPipelineKey(task) == IF task.family = "flux" THEN "flux_pipeline" ELSE "sdxl_pipeline"
MidLoad(task) ==
    /\ task.state = "running"
    /\ \E j \in 1..task.at : task.h.events[j].e = "clear"
    /\ \A j \in 1..task.at : task.h.events[j].e # "store"
C14_LoadIsAtomic ==
    \A a \in 1..MaxTasks :
        /\ Acquired(tasks[a])
           => /\ OwnPipelineKey(tasks[a]) \in DOMAIN OwnCache(tasks[a])
              /\ OwnCache(tasks[a])[OwnPipelineKey(tasks[a])] = tasks[a].h.pipeline
        /\ MidLoad(tasks[a])
           => /\ RunningTasks = {a}
              /\ turns[Len(turns)] = a
              /\ OwnPipelineKey(tasks[a]) \notin DOMAIN OwnCache(tasks[a])
C14_Witness ==
    /\ MidLoad(tasks[1])
    /\ tasks[1].family = "sdxl"
    /\ tasks[1].h.events[tasks[1].at].e = "construct"
    /\ FluxResident
    /\ tasks[2].state = "queued"
    /\ tasks[3].state = "done"

(* C15: when the pipeline call for image k of a batch raises, no later     *)
(* image of the batch is generated or saved, the response is not a         *)
(* success, and the failure response carries the cause and the number k of *)
(* images produced and saved before it: the response of a batch that       *)
(* failed at k differs from the one it would get failing at another index. *)
(* Violated: the response is HTTPException(500, str(e)) whatever k is; the *)
(* list of images already built is dropped with the handler's frame.       *)
GenerationFailed == IsRequest /\ last.response.detail = "generation"
FailedAt == Len(Only(last.events, "save"))
C15_FailureReportsProgress ==
    GenerationFailed
    => /\ Len(Only(last.events, "invoke")) = FailedAt + 1
       /\ Len(last.saved) = FailedAt
       /\ last.events[Len(last.events)] = Ev("invoke", FailedAt)
       /\ last.response.status # 200
       /\ last.response.detail = Raised("generation").kind
       /\ \A k \in 0..(last.request.num_images - 1) :
            k # FailedAt
            => Generate(OwnAfter, Got(OwnAfter, NoExc, last.pipeline, <<>>), last.request,
                        BatchEnv(7, k, TRUE), "flux", <<>>, last.dir_before,
                        flux_negative_prompt(last.request)).response
               # last.response

(* C16: when a batch fails at image k, the k files it wrote stay in        *)
(* OUTPUT_DIR next to every file that was there before, and no step of any *)
(* request ever removes a file: the directory only grows.                  *)
C16_FailureKeepsArtifacts ==
    [][/\ output_dir \subseteq output_dir'
       /\ GenerationFailed'
          => /\ output_dir' = output_dir \cup {last'.saved[j] : j \in DOMAIN last'.saved}
             /\ Cardinality(output_dir') = Cardinality(output_dir) + FailedAt']_vars
C16_Witness ==
    /\ GenerationFailed
    /\ FailedAt = 2
    /\ last.request.num_images = 4
    /\ last.dir_before # {}
    /\ Cardinality(output_dir) = Cardinality(last.dir_before) + 2

(* C17: no two saves, of any requests of either family, produce the same  *)
(* identifier or the same file name: the files a request writes have names *)
(* that differ from each other and from every file already in OUTPUT_DIR,  *)
(* so a save never writes over an existing file.                           *)
C17_FilenamesNeverCollide ==
    IsRequest
    => LET saved == last.saved
       IN  /\ Len(saved) = Len(Only(last.events, "save"))
           /\ \A i, j \in DOMAIN saved : i # j => saved[i][3] # saved[j][3]
           /\ \A i \in DOMAIN saved : saved[i][3] \notin Ids(last.dir_before)
           /\ \A i \in DOMAIN saved : saved[i] \notin last.dir_before
           /\ Cardinality(output_dir) = Cardinality(last.dir_before) + Len(saved)
           /\ Cardinality(Ids(output_dir)) = Cardinality(output_dir)
C17_Witness ==
    /\ Succeeded
    /\ last.family = "sdxl"
    /\ Len(last.saved) = 3
    /\ \E filename \in last.dir_before : filename[1] = "flux_img2img"
    /\ Cardinality(output_dir) = Cardinality(last.dir_before) + 3

(* C18: a request that succeeds with image count n called the pipeline     *)
(* exactly n times, one call after the other (seed i, call i, save i, for  *)
(* i = 0..n-1 in this order), saved exactly n files, and returns exactly n *)
(* images in generation order: image i is the one generated by call i and  *)
(* saved by save i.  The loop ends after n iterations.                     *)
BatchEvents ==
    SelectSeq(last.events, LAMBDA x : x.e \in {"seed", "invoke", "save"})
C18_SuccessHasNImages ==
    Succeeded
    => LET n == last.request.num_images
           images == last.response.images
       IN  /\ Len(images) = n
           /\ Len(last.saved) = n
           /\ Len(BatchEvents) = 3 * n
           /\ \A i \in 0..(n - 1) :
                /\ BatchEvents[3 * i + 1].e = "seed"
                /\ BatchEvents[3 * i + 2] = Ev("invoke", i)
                /\ BatchEvents[3 * i + 3] = Ev("save", i)
                /\ images[i + 1].base64.seed = BatchEvents[3 * i + 1].v
                /\ images[i + 1].base64.by = last.pipeline.id
                /\ images[i + 1].filename = last.saved[i + 1]
                /\ last.saved[i + 1] \in output_dir
           /\ n > 0 => last.events[Len(last.events)] = Ev("save", n - 1)
C18_Witness ==
    /\ Succeeded
    /\ last.endpoint = "flux/generate"
    /\ last.request.num_images = 4
    /\ Len(last.response.images) = 4
    /\ Values(BatchEvents, "invoke") = <<0, 1, 2, 3>>

(* C19: the two listings (list_models, get_models_config) are read-only:  *)
(* they leave both model caches and the output directory as they were,     *)
(* whatever is resident; and they report a family as available exactly     *)
(* when its model file is on disk, which is the file whose absence makes   *)
(* that family's loader fail as "not found".                               *)
IsListing == last.endpoint \in {"models", "models/config"}
Available(body, id) ==
    \E j \in DOMAIN body.models : body.models[j] = ListedModel(id, TRUE)
LoaderFindsFile(family, fs) ==
    IF family = "flux"
    THEN FluxLoad(EmptyDict, EmptyDict, fs, TRUE, 0, "none").exc
           # HTTPException(404, "FLUX model not found")
    ELSE SdxlLoad(EmptyDict, EmptyDict, fs, TRUE, "none").exc # Raised("load_model")
C19_ListingsReadOnly ==
    IsListing
    => /\ flux_cache = last.flux_before /\ sdxl_cache = last.sdxl_before
       /\ output_dir = last.dir_before
       /\ load_failed = last.failed_before
       /\ last.response.status = 200
       /\ Available(last.body, "flux") <=> exists(last.disk, FluxModelFile)
       /\ Available(last.body, "sdxl") <=> exists(last.disk, SdxlModelFile)
       /\ \A family \in {"flux", "sdxl"} :
            Available(last.body, family) <=> LoaderFindsFile(family, last.disk)
C19_Witness ==
    /\ last.endpoint = "models"
    /\ FluxResident /\ SdxlResident
    /\ last.disk = {SdxlModelFile, LoraFile}
    /\ ~Available(last.body, "flux")
    /\ Available(last.body, "sdxl")

(* C20: when the client's disconnect arrives while the pipeline call of   *)
(* one image is under way, that call finishes and the handler then skips   *)
(* the remaining images: it makes no further pipeline call, and the        *)
(* request does not end as a success with all its images.                  *)
(* Violated: nothing in the handlers looks for a disconnect; the loop      *)
(* goes on through every index and the handler builds a 200 response.      *)
C20_CancelSkipsRest ==
    \A t \in 1..MaxTasks :
        (tasks[t].state = "running" /\ tasks[t].cancelled > 0)
        => /\ \A j \in (tasks[t].cancelled + 1)..tasks[t].at :
                tasks[t].h.events[j].e # "invoke"
           /\ (/\ tasks[t].at = Len(tasks[t].h.events)
               /\ tasks[t].h.events[tasks[t].cancelled].v
                    < LoopRequest(tasks[t].endpoint).num_images - 1)
              => tasks[t].h.response.status # 200

(* C21: on a FLUX cache miss the presence of the model file is tested      *)
(* before anything else: a request that finds the file missing has not     *)
(* cleared the cache, reclaimed memory or run the admission test.          *)
(* Violated: get_flux_pipeline clears, reclaims and tests the allocated    *)
(* memory first and looks for the file only afterwards.                    *)
FluxFileMissing ==
    /\ IsRequest /\ last.family = "flux"
    /\ \E j \in DOMAIN last.events : last.events[j] = Ev("exists", 0)
C21_PresenceBeforeAdmission ==
    FluxFileMissing
    => /\ ~Did(last, "clear")
       /\ ~Did(last, "reclaim")
       /\ ~Did(last, "admission")

(* C22: when FLUX loads, the LoRA weights are applied exactly when the     *)
(* LoRA file was found at load time, after the pipeline is constructed and *)
(* before the CPU offload is enabled; and whenever a FLUX pipeline is      *)
(* resident, the cached "lora_available" flag says whether the LoRA was    *)
(* applied to that pipeline.                                               *)
Index(events, e) == CHOOSE j \in DOMAIN events : events[j].e = e
LoraFound == \E j \in DOMAIN last.events : last.events[j] = Ev("exists_lora", 1)
C22_LoraAppliedIffPresent ==
    /\ FluxResident
       => /\ "lora_available" \in DOMAIN flux_cache
          /\ flux_cache["lora_available"] = flux_cache["flux_pipeline"].lora
    /\ (IsRequest /\ last.family = "flux" /\ Did(last, "load_lora"))
       => /\ LoraFound
          /\ Did(last, "construct")
          /\ Index(last.events, "construct") < Index(last.events, "load_lora")
          /\ Did(last, "offload")
             => Index(last.events, "load_lora") < Index(last.events, "offload")
    /\ (IsRequest /\ last.family = "flux" /\ Did(last, "offload"))
       => (Did(last, "load_lora") <=> LoraFound)
    /\ (IsRequest /\ last.family = "flux" /\ Did(last, "store"))
       => /\ last.pipeline.lora = LoraFound
          /\ last.pipeline.lora = Did(last, "load_lora")
          /\ flux_cache["lora_available"] = LoraFound
C22_Witness ==
    /\ Succeeded
    /\ last.endpoint = "flux/transform"
    /\ Did(last, "store")
    /\ ~LoraFound
    /\ ~Did(last, "load_lora")
    /\ flux_cache["lora_available"] = FALSE
    /\ SdxlLoad(EmptyDict, EmptyDict, ModelFiles, TRUE, "none").exc = NoExc

(* C23: every image of a FLUX generate or transform batch is generated     *)
(* with the request's negative prompt when cfg_scale > 1.0 and with the    *)
(* empty string when cfg_scale <= 1.0; at cfg_scale = 1.0 the caller's     *)
(* negative prompt does not reach the pipeline.                            *)
C23_NegativePromptNeedsCfg ==
    (Succeeded /\ last.family = "flux")
    => \A i \in DOMAIN last.response.images :
         LET passed == last.response.images[i].base64.negative_prompt
         IN  /\ last.request.cfg_scale > 10 => passed = last.request.negative_prompt
             /\ last.request.cfg_scale <= 10 => passed = ""
C23_Witness ==
    /\ Succeeded
    /\ last.endpoint = "flux/generate"
    /\ last.request.cfg_scale = 10
    /\ last.request.negative_prompt = "blurry"
    /\ Len(last.response.images) = 2
    /\ last.response.images[2].base64.negative_prompt = ""

(* C24: each save_and_encode_image call writes exactly one file to         *)
(* OUTPUT_DIR, named "<mode>_<identifier>.png" from the endpoint's mode tag *)
(* and a fresh identifier; the returned filename is the name of the file    *)
(* written and url = "/images/" + filename, so every URL of a successful    *)
(* response is served from a file that was persisted.                       *)
ModelName(endpoint) ==
    CASE endpoint = "flux/generate" -> "flux"
      [] endpoint = "flux/transform" -> "flux_img2img"
      [] endpoint = "sdxl/generate" -> "sdxl"
      [] endpoint = "sdxl/transform" -> "sdxl_img2img"
C24_UrlNamesWrittenFile ==
    /\ IsRequest
       => /\ Len(last.saved) = Len(Only(last.events, "save"))
          /\ Cardinality(output_dir \ last.dir_before) = Len(last.saved)
          /\ \A i \in DOMAIN last.saved :
               /\ last.saved[i] \in output_dir \ last.dir_before
               /\ Len(last.saved[i]) = 4
               /\ last.saved[i]
                  = <<ModelName(last.endpoint), "_", last.saved[i][3], ".png">>
               /\ last.saved[i][3] \notin Ids(last.dir_before)
    /\ Succeeded
       => \A i \in DOMAIN last.response.images :
            LET image == last.response.images[i]
            IN  /\ image.filename = last.saved[i]
                /\ image.url = <<"/images/">> \o image.filename
                /\ StaticFiles(image.url) \in output_dir
C24_Witness ==
    /\ Succeeded
    /\ last.endpoint = "flux/transform"
    /\ last.dir_before # {}
    /\ Len(last.response.images) = 2
    /\ last.response.images[2].url = <<"/images/", "flux_img2img", "_", last.saved[2][3], ".png">>
    /\ last.saved[2] \in output_dir \ last.dir_before

(* C25: on the Streamlit page, a batch generated without a fixed seed uses *)
(* one base seed drawn for the whole batch, image i being generated under  *)
(* base + i, and the stored generation parameters record that base seed.   *)
(* Violated: the loop draws a seed for every image, and the parameters     *)
(* keep the text "Random" and no number.                                   *)
PageStored(s) ==
    /\ "generated_images" \in DOMAIN session_state[s]
    /\ "generation_params" \in DOMAIN session_state[s]
NoFixedSeed(s) == PageStored(s) /\ session_state[s]["generation_params"].seed = None
C25_PageBaseSeedRecorded ==
    \A s \in Sessions :
      NoFixedSeed(s)
      => LET images == session_state[s]["generated_images"]
             base   == images[1].seed
         IN  /\ \A i \in DOMAIN images : images[i].seed = base + (i - 1)
             /\ session_state[s]["generation_params"].seed = Some(base)

(* C26: the two route modules keep separate caches: a FLUX request, its   *)
(* "clear all cached models" step included, leaves the entries of the SDXL *)
(* module's cache as they were, and an SDXL request leaves the entries of  *)
(* the FLUX module's cache as they were.                                   *)
C26_CachesIndependent ==
    IsRequest
    => /\ OtherAfter = OtherBefore
       /\ DOMAIN OtherAfter = DOMAIN OtherBefore
       /\ OtherKey \in DOMAIN OtherBefore => OtherAfter[OtherKey] = OtherBefore[OtherKey]
C26_Witness ==
    /\ IsRequest
    /\ last.family = "flux"
    /\ Did(last, "clear")
    /\ "sdxl_pipeline" \in DOMAIN last.sdxl_before
    /\ SdxlResident
    /\ sdxl_cache = last.sdxl_before

(* C27: between requests the FLUX module's cache is either empty or holds *)
(* both "flux_pipeline" and "lora_available"; so whenever get_flux_pipeline *)
(* runs its cache-clearing step the cache is already empty, and the step    *)
(* never releases a resident pipeline.                                      *)
C27_ClearFindsEmptyCache ==
    /\ DOMAIN flux_cache \in {{}, {"flux_pipeline", "lora_available"}}
    /\ (IsRequest /\ last.family = "flux" /\ Did(last, "clear"))
       => /\ last.flux_before = EmptyDict
          /\ \A j \in DOMAIN last.events :
               last.events[j].e = "clear" => last.events[j].v = 0
C27_Witness ==
    /\ IsRequest
    /\ last.family = "flux"
    /\ "flux" \in last.failed_before
    /\ Did(last, "clear")
    /\ Did(last, "store")
    /\ DOMAIN flux_cache = {"flux_pipeline", "lora_available"}

(* C28: once a family's pipeline is in its cache it stays there: no       *)
(* request, whether it succeeds, fails or is for the other family, and no   *)
(* other operation removes or replaces it.                                  *)
C28_ResidencyIsMonotonic ==
    [][/\ FluxResident => flux_cache' = flux_cache
       /\ SdxlResident => sdxl_cache' = sdxl_cache]_vars
C28_Witness ==
    /\ IsRequest
    /\ last.family = "sdxl"
    /\ last.response.status # 200
    /\ "sdxl_pipeline" \in DOMAIN last.sdxl_before
    /\ "flux_pipeline" \in DOMAIN last.flux_before
    /\ sdxl_cache = last.sdxl_before
    /\ flux_cache = last.flux_before

(* C29: whichever of the two model files are present, the "default_model" *)
(* that get_models_config returns names a model of the "models" list it     *)
(* returns, also when neither file is present.                              *)
(* Violated: with the FLUX file absent the default is "sdxl" whether or not *)
(* the SDXL file is there; with neither file the list is empty.             *)
C29_DefaultModelIsListed ==
    last.endpoint = "models/config"
    => \E j \in DOMAIN last.body.models :
         last.body.models[j].id = last.body.default_model

(* C30: when the text model's directory is missing, get_text_model raises *)
(* its 404 "model not found" error and not a 500 load error, and leaves the *)
(* text cache empty; the cache holds "text_model" exactly when it holds     *)
(* "text_tokenizer".                                                        *)
(* Violated: the 404 is raised inside the loader's own try and its "except  *)
(* Exception" clause turns it into a 500 "Error loading model".             *)
TextDirMissing ==
    /\ text_last.endpoint # "none"
    /\ \E j \in DOMAIN text_last.events : text_last.events[j] = Ev("exists", 0)
TextKeysTogether ==
    ("text_model" \in DOMAIN text_cache) <=> ("text_tokenizer" \in DOMAIN text_cache)
C30_MissingTextModelIs404 ==
    /\ TextKeysTogether
    /\ TextDirMissing
       => /\ text_last.raised.status = 404
          /\ text_cache = EmptyDict

====
